---- MODULE Spec2Model ----
(***************************************************************************)
(* Model of the rule evaluation engine of src/core/ScanManager.ts:         *)
(* the constructor, scan(), measure(), dump() and the private commonScan() *)
(* loop, stepped one statement group at a time, and of the older variant   *)
(* src/core/ScanManager.js with its _scan(context) loop.  The tree-sitter query engine    *)
(* and the rule callbacks (preFilter, measureNodes, validateNodes,         *)
(* validateNode) are collaborators; each rule record carries a tag that    *)
(* fixes how its callbacks behave, so that they are deterministic          *)
(* functions of their arguments and of the rule.                           *)
(***************************************************************************)
EXTENDS Integers, Sequences, FiniteSets, TLC

\* ResultType.VIOLATION, the highest severity level (sourceloupe-types)
VIOLATION == 3

\* bounds of the model
MaxPriority == 5
MaxRules == 2
MaxRuns == 2
NumNodes == 2

----------------------------------------------------------------------------
(* Data model                                                              *)

\* a rule without Context (undefined): the empty word list
NoContext == <<>>
\* a rule without RegEx (undefined or ''): both are falsy at line 86
NoRegEx == ""

BadQuery == "(variable_declarator"
NoneQuery == "(interface_declaration) @exp"
\* the pattern dump() falls back to (line 41)
DefaultDumpQuery == "(class_declaration @decl)"
AllQuery == "(variable_declarator (identifier) @exp)"
DupQuery == "(variable_declarator (identifier) @exp @exp)"

FooRegEx == "foo_[a-zA-Z0-9]*"

\* the identifier nodes of the parsed tree, in document order
Nodes == 1..NumNodes

\* the class declaration that encloses every identifier
ClassNode == 0

\* node.startIndex and node.endIndex, counted in tokens of the source text
StartIndex(n) == IF n = ClassNode THEN 0 ELSE n - 1
EndIndex(n) == IF n = ClassNode THEN NumNodes ELSE n

\* a value that is not there (undefined)
Undefined == "undefined"

\* node.text of a node: the first declared identifier is foo_bar123
NodeText(n) == IF n = 1 THEN "foo_bar123" ELSE "other"

\* the source text handed to the constructor, one identifier per node
SourceOf(ns) == [i \in 1..ns |-> NodeText(i)]

\* String.prototype.includes / Array.prototype.includes on rule.Context
Includes(ctx, word) == \E i \in DOMAIN ctx : ctx[i] = word

\* the rule every other rule shape is a variation of
BaseRule ==
    [Id |-> 0, Category |-> "Variables",
     Priority |-> 1, Context |-> <<"scan", "measure">>,
     Query |-> AllQuery, RegEx |-> NoRegEx,
     preFilter |-> "identity", measureNodes |-> "ok",
     validateNodes |-> "each", validateNode |-> "flag"]

\* the rule records a registry may supply
RuleShapes ==
    { BaseRule,
      [BaseRule EXCEPT !.Query = BadQuery],
      [BaseRule EXCEPT !.Query = NoneQuery],
      [BaseRule EXCEPT !.Query = NoneQuery, !.validateNodes = "always"],
      [BaseRule EXCEPT !.Query = DupQuery],
      [BaseRule EXCEPT !.RegEx = FooRegEx],
      [BaseRule EXCEPT !.preFilter = "throws"],
      [BaseRule EXCEPT !.measureNodes = "throws"],
      [BaseRule EXCEPT !.validateNodes = "throws"],
      [BaseRule EXCEPT !.validateNode = "throwsOnLast"],
      [BaseRule EXCEPT !.validateNodes = "none", !.validateNode = "none"],
      [BaseRule EXCEPT !.Priority = VIOLATION],
      [BaseRule EXCEPT !.Priority = MaxPriority],
      [BaseRule EXCEPT !.Priority = MaxPriority, !.Query = BadQuery],
      [BaseRule EXCEPT !.Context = NoContext],
      [BaseRule EXCEPT !.Context = NoContext, !.measureNodes = "throws"],
      [BaseRule EXCEPT !.Context = <<"scan">>, !.Priority = MaxPriority],
      [BaseRule EXCEPT !.Context = <<"measure">>] }

\* rule lists of at most MaxRules rules; Id is the identity of the rule object
RuleLists ==
    UNION { { [i \in 1..n |-> [shapes[i] EXCEPT !.Id = i]] :
              shapes \in [1..n -> RuleShapes] } : n \in 0..MaxRules }

----------------------------------------------------------------------------
(* Collaborators: query engine and rule callbacks                          *)

\* line 86: the composed query text
QueryText(rule) ==
    [pattern |-> rule.Query,
     match |-> IF rule.RegEx # NoRegEx THEN rule.RegEx ELSE NoRegEx]

\* new TreeSitter.Query(language, queryText) throws on a malformed pattern
Compiles(queryText) == queryText.pattern # BadQuery

\* what the pattern alone captures under the root
PatternCaptures(pattern) ==
    CASE pattern = NoneQuery -> <<>>
      [] pattern = AllQuery -> [i \in 1..NumNodes |-> i]
      [] pattern = DupQuery -> <<1, 1>>
      [] pattern = DefaultDumpQuery -> <<ClassNode>>
      [] OTHER -> <<>>

\* (#match? @exp "re")
RegExMatches(re, text) == re = FooRegEx /\ text = "foo_bar123"

\* query.captures(filteredRoot).map(c => c.node)
Captures(queryText) ==
    IF queryText.match = NoRegEx
    THEN PatternCaptures(queryText.pattern)
    ELSE SelectSeq(PatternCaptures(queryText.pattern),
                   LAMBDA n : RegExMatches(queryText.match, NodeText(n)))

\* a finding made by a validator: it carries the rule and its severity
Finding(rule, node, by) ==
    [rule |-> rule.Id, severity |-> rule.Priority, node |-> node, by |-> by]

PreFilterThrows(rule) == rule.preFilter = "throws"
MeasureNodesThrows(rule) == rule.measureNodes = "throws"
ValidateNodesThrows(rule) == rule.validateNodes = "throws"
ValidateNodeThrows(rule, node) ==
    rule.validateNode = "throwsOnLast" /\ node = NumNodes

\* rule.validateNodes(capturedNodes)
ValidateNodesFindings(rule, nodes) ==
    CASE rule.validateNodes = "each" ->
            [i \in 1..Len(nodes) |-> Finding(rule, nodes[i], "validateNodes")]
      [] rule.validateNodes = "always" ->
            <<Finding(rule, 0, "validateNodes")>>
      [] OTHER -> <<>>

\* rule.validateNode(node)
ValidateNodeFindings(rule, node) ==
    IF rule.validateNode = "none"
    THEN <<>>
    ELSE <<Finding(rule, node, "validateNode")>>

----------------------------------------------------------------------------
(* commonScan, statement by statement                                      *)

Min(a, b) == IF a < b THEN a ELSE b

\* line 85 without the comparison
ClampOff(p) == p
\* line 85: rule.Priority > ResultType.VIOLATION ? ResultType.VIOLATION : rule.Priority
Clamp(p) == IF p > VIOLATION THEN VIOLATION ELSE p

\* line 85 writing the defaulted context back as well
NormalizeAll(rule) ==
    [rule EXCEPT !.Priority = Clamp(@),
                 !.Context = IF @ = NoContext THEN <<"scan">> ELSE @]
\* line 85: the assignment to rule.Priority
Normalize(rule) == [rule EXCEPT !.Priority = Clamp(@)]

\* line 100 defaulting to 'measure'
RuleContextMeasure(rule) ==
    IF rule.Context = NoContext THEN <<"measure">> ELSE rule.Context
\* line 100: rule.Context ?? 'scan'
RuleContext(rule) ==
    IF rule.Context = NoContext THEN <<"scan">> ELSE rule.Context

\* line 102 without the test
MeasureGateOpen(ruleContext) == TRUE
\* line 102: ruleContext.includes('measure')
MeasureGate(ruleContext) == Includes(ruleContext, "measure")

\* line 79 keeping the list of the previous call
SharedResultList(previous) == previous
\* line 79: const scanResultList = []
NewResultList(previous) == <<>>

\* lines 106, 109 with unshift instead of push
Unshift(list, findings) == findings \o list
\* lines 106, 109: scanResultList.push(...findings)
Push(list, findings) == list \o findings

RECURSIVE Distinct(_)
Distinct(nodes) ==
    IF nodes = <<>>
    THEN <<>>
    ELSE LET front == Distinct(SubSeq(nodes, 1, Len(nodes) - 1))
             last == nodes[Len(nodes)]
         IN  IF \E k \in DOMAIN front : front[k] = last
             THEN front
             ELSE Append(front, last)

\* lines 95-97 keeping one entry per node
DistinctNodes(captures, previous) == Distinct(captures)
\* lines 95-97 keeping the previous rule's nodes when nothing is captured
StaleNodes(captures, previous) ==
    IF captures = <<>> THEN previous ELSE captures
\* lines 95-97: capturedNodes = captures.map(c => c.node)
CapturedNodes(captures, previous) == captures

\* line 111 catching nothing the query engine raises
CaughtUnlessQuery(error) == error # "query"
\* line 111 catching only what the query engine raises
CaughtOnlyQuery(error) == error = "query"
\* line 111: catch (treeSitterError: unknown) catches whatever the try raises
Caught(error) == TRUE

\* lines 111-115 leaving the loop after an error
BreakAfterCatch(i, n) == n + 1
\* lines 111-115: after the catch the for loop takes the next rule
AfterCatch(i, n) == i + 1

\* lines 81-86 skipping a rule whose context lacks the requested operation
SkippedByContext(rule, operation) == ~Includes(RuleContext(rule), operation)
\* lines 81-86: the loop head has no continue, every rule is evaluated
Skipped(rule, operation) == FALSE

\* lines 89-110 with validateNodes ahead of measureNodes
NextStepSwapped(step) ==
    CASE step = "preFilter" -> "query"
      [] step = "query" -> "validateNodes"
      [] step = "validateNodes" -> "measure"
      [] step = "measure" -> "forEach"
\* lines 89-110: the order of the statements of the try block
NextStep(step) ==
    CASE step = "preFilter" -> "query"
      [] step = "query" -> "measure"
      [] step = "measure" -> "validateNodes"
      [] step = "validateNodes" -> "forEach"

\* lines 56, 66, 76-117 with an await on the bulk validator
AwaitsInLoop(position) == position \in {"settling", "validateNodes"}
\* lines 56, 66, 76-117: commonScan has no await; scan() and measure() hand
\* its promise on, so a call is only suspended once commonScan has returned
Awaits(position) == position = "settling"

\* lines 40-42 without the default
DumpQueryStringAsIs(queryString) == queryString
\* lines 40-42: an empty query string becomes the class declaration pattern
DumpQueryString(queryString) ==
    IF queryString = "" THEN DefaultDumpQuery ELSE queryString

\* the capture label of a pattern
CaptureName(pattern) == IF pattern = DefaultDumpQuery THEN "decl" ELSE "exp"

\* JSON.stringify of a list
Stringify(list) == [json |-> list]

\* the query strings handed to dump()
DumpQueries == {"", AllQuery, DupQuery, NoneQuery, BadQuery}

VARIABLES
    scannerRules,      \* this.scannerRules: the rule objects, Priority mutable
    suppliedRules,     \* the rules as they were when the constructor ran
    sourceCodeToScan,  \* this.sourceCodeToScan
    suppliedSource,    \* the source text as it was when the constructor ran
    op,                \* the public operation running: "none", "scan", "measure"
    pc,                \* position inside commonScan
    ruleIdx,           \* position of the for loop in contextRules
    capturedNodes,     \* capturedNodes of the current rule
    nodeIdx,           \* position of capturedNodes.forEach
    scanResultList,    \* scanResultList of the running (or last) call
    pending,           \* the error raised inside the try, "none" if none
    callLog,           \* callbacks invoked by the running (or last) call
    consoleErrors,     \* console.error lines of the running (or last) call
    returned,          \* outcome of every settled call, in settling order
    call,              \* number of the running (or last) call, in call order
    suspended,         \* the calls whose promise is not settled yet
    timeline,          \* the call each callback invocation belonged to
    dumped,            \* what the last dump() gave back
    resultMap          \* resultMap of _scan (ScanManager.js)

vars == <<scannerRules, suppliedRules, sourceCodeToScan, suppliedSource, op,
          pc, ruleIdx, capturedNodes, nodeIdx, scanResultList, pending,
          callLog, consoleErrors, returned, call, suspended, timeline,
          dumped, resultMap>>

\* the fields the constructor sets and nothing assigns afterwards
fixed == <<suppliedRules, sourceCodeToScan, suppliedSource>>

\* what commonScan never touches: the last dump and the map of the variant
aside == <<dumped, resultMap>>

Rule == scannerRules[ruleIdx]

Call(cb, rule, nodes) ==
    [cb |-> cb, rule |-> rule.Id, priority |-> rule.Priority,
     context |-> rule.Context, nodes |-> nodes, op |-> op]

\* no dump() since the last scan
NoDump ==
    [outcome |-> "none", value |-> Undefined, logged |-> Undefined,
     queryString |-> Undefined]

\* a Map without keys
EmptyMap == [c \in {} |-> <<>>]

\* the local state of a call of scan()/measure() that is suspended
Frame ==
    [call |-> call, op |-> op, pc |-> pc, ruleIdx |-> ruleIdx,
     capturedNodes |-> capturedNodes, nodeIdx |-> nodeIdx,
     scanResultList |-> scanResultList, pending |-> pending,
     callLog |-> callLog, consoleErrors |-> consoleErrors]

\* the calls made so far
Issued == Len(returned) + Cardinality(suspended)

\* constructor (lines 22-29)
Init ==
    /\ scannerRules \in RuleLists
    /\ suppliedRules = scannerRules
    /\ sourceCodeToScan = SourceOf(NumNodes)
    /\ suppliedSource = sourceCodeToScan
    /\ op = "none"
    /\ pc = "idle"
    /\ ruleIdx = 0
    /\ capturedNodes = <<>>
    /\ nodeIdx = 0
    /\ scanResultList = <<>>
    /\ pending = "none"
    /\ callLog = <<>>
    /\ consoleErrors = <<>>
    /\ returned = <<>>
    /\ call = 0
    /\ suspended = {}
    /\ timeline = <<>>
    /\ dumped = NoDump
    /\ resultMap = EmptyMap

\* lines 76-79: commonScan entered from scan() or measure()
Enter(operation) ==
    /\ pc = "idle"
    /\ Issued < MaxRuns
    /\ op' = operation
    /\ call' = Issued + 1
    /\ scanResultList' = NewResultList(scanResultList)
    /\ ruleIdx' = 1
    /\ capturedNodes' = <<>>
    /\ nodeIdx' = 0
    /\ pending' = "none"
    /\ callLog' = <<>>
    /\ consoleErrors' = <<>>
    /\ pc' = "for"
    /\ dumped' = NoDump
    /\ UNCHANGED <<scannerRules, returned, suspended, timeline, resultMap>>
    /\ UNCHANGED fixed

\* scan() (lines 65-67), called once every earlier call has been awaited
Scan == suspended = {} /\ Enter("scan")

\* measure() (lines 55-57), called once every earlier call has been awaited
Measure == suspended = {} /\ Enter("measure")

\* scan() (lines 65-67), called while the promise of an earlier call is pending
ScanUnawaited == suspended # {} /\ Enter("scan")

\* measure() (lines 55-57), called while the promise of an earlier call is pending
MeasureUnawaited == suspended # {} /\ Enter("measure")

\* lines 81-86: loop head, priority normalisation, query text
ForRule ==
    /\ pc = "for"
    /\ ruleIdx <= Len(scannerRules)
    /\ IF Skipped(Rule, op)
       THEN /\ ruleIdx' = ruleIdx + 1
            /\ pc' = pc
            /\ scannerRules' = scannerRules
       ELSE /\ scannerRules' = [scannerRules EXCEPT ![ruleIdx] = Normalize(@)]
            /\ pc' = "preFilter"
            /\ ruleIdx' = ruleIdx
    /\ UNCHANGED <<op, capturedNodes, nodeIdx, scanResultList, pending,
                   callLog, consoleErrors, returned, call, suspended,
                   timeline>>
    /\ UNCHANGED fixed
    /\ UNCHANGED aside

\* line 89: rule.preFilter(rootNode)
PreFilter ==
    /\ pc = "preFilter"
    /\ callLog' = Append(callLog, Call("preFilter", Rule, <<>>))
    /\ timeline' = Append(timeline, call)
    /\ IF PreFilterThrows(Rule)
       THEN pending' = "preFilter" /\ pc' = "catch"
       ELSE pending' = pending /\ pc' = NextStep("preFilter")
    /\ UNCHANGED <<scannerRules, op, ruleIdx, capturedNodes, nodeIdx,
                   scanResultList, consoleErrors, returned, call, suspended>>
    /\ UNCHANGED fixed
    /\ UNCHANGED aside

\* lines 91-97: compile the query, run it, keep the nodes
RunQuery ==
    /\ pc = "query"
    /\ callLog' = Append(callLog, Call("query", Rule, <<>>))
    /\ timeline' = Append(timeline, call)
    /\ IF Compiles(QueryText(Rule))
       THEN /\ capturedNodes' =
                 CapturedNodes(Captures(QueryText(Rule)), capturedNodes)
            /\ pending' = pending
            /\ pc' = NextStep("query")
       ELSE /\ capturedNodes' = capturedNodes
            /\ pending' = "query"
            /\ pc' = "catch"
    /\ UNCHANGED <<scannerRules, op, ruleIdx, nodeIdx, scanResultList,
                   consoleErrors, returned, call, suspended>>
    /\ UNCHANGED fixed
    /\ UNCHANGED aside

\* lines 100-104: measureNodes when the rule's context includes 'measure'
MeasureNodes ==
    /\ pc = "measure"
    /\ IF MeasureGate(RuleContext(Rule))
       THEN /\ callLog' = Append(callLog, Call("measureNodes", Rule, capturedNodes))
            /\ timeline' = Append(timeline, call)
            /\ IF MeasureNodesThrows(Rule)
               THEN pending' = "measureNodes" /\ pc' = "catch"
               ELSE pending' = pending /\ pc' = NextStep("measure")
       ELSE /\ callLog' = callLog
            /\ timeline' = timeline
            /\ pending' = pending
            /\ pc' = NextStep("measure")
    /\ UNCHANGED <<scannerRules, op, ruleIdx, capturedNodes, nodeIdx,
                   scanResultList, consoleErrors, returned, call, suspended>>
    /\ UNCHANGED fixed
    /\ UNCHANGED aside

\* line 106: scanResultList.push(...rule.validateNodes(capturedNodes))
ValidateNodes ==
    /\ pc = "validateNodes"
    /\ callLog' = Append(callLog, Call("validateNodes", Rule, capturedNodes))
    /\ timeline' = Append(timeline, call)
    /\ IF ValidateNodesThrows(Rule)
       THEN /\ pending' = "validateNodes"
            /\ pc' = "catch"
            /\ UNCHANGED <<scanResultList, nodeIdx>>
       ELSE /\ scanResultList' =
                 Push(scanResultList, ValidateNodesFindings(Rule, capturedNodes))
            /\ nodeIdx' = 1
            /\ pending' = pending
            /\ pc' = NextStep("validateNodes")
    /\ UNCHANGED <<scannerRules, op, ruleIdx, capturedNodes, consoleErrors,
                   returned, call, suspended>>
    /\ UNCHANGED fixed
    /\ UNCHANGED aside

\* lines 108-110: one turn of capturedNodes.forEach
ValidateNode ==
    /\ pc = "forEach"
    /\ nodeIdx <= Len(capturedNodes)
    /\ callLog' = Append(callLog,
                         Call("validateNode", Rule, <<capturedNodes[nodeIdx]>>))
    /\ timeline' = Append(timeline, call)
    /\ IF ValidateNodeThrows(Rule, capturedNodes[nodeIdx])
       THEN /\ pending' = "validateNode"
            /\ pc' = "catch"
            /\ UNCHANGED <<scanResultList, nodeIdx>>
       ELSE /\ scanResultList' =
                 Push(scanResultList,
                      ValidateNodeFindings(Rule, capturedNodes[nodeIdx]))
            /\ nodeIdx' = nodeIdx + 1
            /\ pending' = pending
            /\ pc' = "forEach"
    /\ UNCHANGED <<scannerRules, op, ruleIdx, capturedNodes, consoleErrors,
                   returned, call, suspended>>
    /\ UNCHANGED fixed
    /\ UNCHANGED aside

\* line 110-115: forEach is over, the try block ends, next rule
EndRule ==
    /\ pc = "forEach"
    /\ nodeIdx > Len(capturedNodes)
    /\ ruleIdx' = ruleIdx + 1
    /\ pc' = "for"
    /\ UNCHANGED <<scannerRules, op, capturedNodes, nodeIdx, scanResultList,
                   pending, callLog, consoleErrors, returned, call, suspended,
                   timeline>>
    /\ UNCHANGED fixed
    /\ UNCHANGED aside

\* lines 111-114: the catch clause; an error it does not catch leaves
\* commonScan and rejects the promise of scan()/measure()
Catch ==
    /\ pc = "catch"
    /\ IF Caught(pending)
       THEN /\ consoleErrors' =
                 Append(consoleErrors, [rule |-> Rule.Id, error |-> pending])
            /\ ruleIdx' = AfterCatch(ruleIdx, Len(scannerRules))
            /\ pc' = "for"
            /\ returned' = returned
            /\ op' = op
       ELSE /\ consoleErrors' = consoleErrors
            /\ ruleIdx' = ruleIdx
            /\ pc' = "idle"
            /\ returned' = Append(returned,
                   [call |-> call, op |-> op, outcome |-> "thrown",
                    result |-> <<>>])
            /\ op' = "none"
    /\ pending' = "none"
    /\ UNCHANGED <<scannerRules, capturedNodes, nodeIdx, scanResultList,
                   callLog, call, suspended, timeline>>
    /\ UNCHANGED fixed
    /\ UNCHANGED aside

\* line 116: return scanResultList; control is back in scan() (line 66) or
\* measure() (line 56) with the promise of commonScan
Return ==
    /\ pc = "for"
    /\ ruleIdx > Len(scannerRules)
    /\ pc' = "settling"
    /\ UNCHANGED <<scannerRules, op, ruleIdx, capturedNodes, nodeIdx,
                   scanResultList, pending, callLog, consoleErrors, returned,
                   call, suspended, timeline>>
    /\ UNCHANGED fixed
    /\ UNCHANGED aside

\* lines 56, 66: the call is suspended at an await (or at the return of a
\* promise from an async function) and the caller runs on
Yield ==
    /\ Awaits(pc)
    /\ suspended' = suspended \cup {Frame}
    /\ pc' = "idle"
    /\ op' = "none"
    /\ UNCHANGED <<scannerRules, ruleIdx, capturedNodes, nodeIdx,
                   scanResultList, pending, callLog, consoleErrors, returned,
                   call, timeline>>
    /\ UNCHANGED fixed
    /\ UNCHANGED aside

\* lines 56, 66: a suspended call is taken up again from the microtask
\* queue; one that had left commonScan settles its promise with the list
Resume ==
    /\ pc = "idle"
    /\ \E frame \in suspended :
          /\ suspended' = suspended \ {frame}
          /\ call' = frame.call
          /\ ruleIdx' = frame.ruleIdx
          /\ capturedNodes' = frame.capturedNodes
          /\ nodeIdx' = frame.nodeIdx
          /\ scanResultList' = frame.scanResultList
          /\ pending' = frame.pending
          /\ callLog' = frame.callLog
          /\ consoleErrors' = frame.consoleErrors
          /\ IF frame.pc = "settling"
             THEN /\ returned' = Append(returned,
                         [call |-> frame.call, op |-> frame.op,
                          outcome |-> "returned",
                          result |-> frame.scanResultList])
                  /\ pc' = "idle"
                  /\ op' = "none"
             ELSE /\ returned' = returned
                  /\ pc' = frame.pc
                  /\ op' = frame.op
    /\ UNCHANGED <<scannerRules, timeline>>
    /\ UNCHANGED fixed
    /\ UNCHANGED aside

\* the captures of a query string over the whole tree, with their labels
DumpCaptures(queryString) ==
    LET nodes == PatternCaptures(queryString)
    IN  [k \in 1..Len(nodes) |-> [name |-> CaptureName(queryString), node |-> nodes[k]]]

\* node.text: the source text between the offsets of the node
Text(n) == SubSeq(sourceCodeToScan, StartIndex(n) + 1, EndIndex(n))

\* line 46: the entry `@${capture.name}=${capture.node.text}`
DumpEntry(capture) == [name |-> capture.name, text |-> Text(capture.node)]

\* dump(queryString) (lines 37-49); the query is compiled outside any try
Dump ==
    /\ pc = "idle"
    /\ \E queryString \in DumpQueries :
          LET query == DumpQueryString(queryString)
              globalCaptures == DumpCaptures(query)
          IN  dumped' =
                IF Compiles([pattern |-> query, match |-> NoRegEx])
                THEN [outcome |-> "returned",
                      value |-> Stringify([k \in 1..Len(globalCaptures) |->
                                             DumpEntry(globalCaptures[k])]),
                      logged |-> Undefined,
                      queryString |-> queryString]
                ELSE [outcome |-> "thrown", value |-> Undefined,
                      logged |-> Undefined, queryString |-> queryString]
    /\ UNCHANGED <<scannerRules, op, pc, ruleIdx, capturedNodes, nodeIdx,
                   scanResultList, pending, callLog, consoleErrors, returned,
                   call, suspended, timeline, resultMap>>
    /\ UNCHANGED fixed

Next ==
    \/ Scan
    \/ Measure
    \/ ForRule
    \/ PreFilter
    \/ RunQuery
    \/ MeasureNodes
    \/ ValidateNodes
    \/ ValidateNode
    \/ EndRule
    \/ Catch
    \/ Return
    \/ Yield
    \/ Resume

Spec == Init /\ [][Next]_vars

\* the engine with few rules, for the dump() playground
MaxDumpRules == 1

InitDump == Init /\ Len(scannerRules) <= MaxDumpRules

NextDump == Next \/ Dump

SpecDump == InitDump /\ [][NextDump]_vars

\* the engine with few rules, for callers that do not await their calls
MaxUnawaitedRules == 1

InitUnawaited == Init /\ Len(scannerRules) <= MaxUnawaitedRules

NextUnawaited == Next \/ ScanUnawaited \/ MeasureUnawaited

SpecUnawaited == InitUnawaited /\ [][NextUnawaited]_vars

----------------------------------------------------------------------------
(* The variant src/core/ScanManager.js: _scan(context), synchronous        *)

\* the rule records handed to the variant
JsRuleShapes ==
    { BaseRule,
      [BaseRule EXCEPT !.validateNode = "none"],
      [BaseRule EXCEPT !.validateNode = "throwsOnLast"],
      [BaseRule EXCEPT !.Query = BadQuery],
      [BaseRule EXCEPT !.Query = NoneQuery],
      [BaseRule EXCEPT !.Query = DupQuery],
      [BaseRule EXCEPT !.RegEx = FooRegEx],
      [BaseRule EXCEPT !.Context = <<"scan">>],
      [BaseRule EXCEPT !.Context = <<"scan">>, !.Category = "Naming"],
      [BaseRule EXCEPT !.Context = <<"measure">>, !.Category = "Metrics"],
      [BaseRule EXCEPT !.Context = NoContext, !.Category = "Metrics"] }

JsRuleLists ==
    UNION { { [i \in 1..n |-> [shapes[i] EXCEPT !.Id = i]] :
              shapes \in [1..n -> JsRuleShapes] } : n \in 0..MaxRules }

\* line 60 letting every rule through
JsContextGateOpen(rule, context) == TRUE
\* line 60: rule.Context.includes(context)
JsContextGate(rule, context) == Includes(rule.Context, context)

\* line 81 pushing into the list of the rule's category
JsListOfCategory(map, rule) == rule.Category
\* line 81: resultMap[rule.Context] is a property of the Map object that
\* nothing ever set; the key of the list to push into, Undefined if none
JsViolationList(map, rule) == Undefined

\* line 78: rule.validate(capture.node) tells whether the node is valid
JsValid(rule, node) == rule.validateNode = "none"

\* line 80: new Violation(capture.node, rule, this._sourcePath)
Violation(node, rule) == [node |-> node, rule |-> rule.Id]

\* lines 56-58: resultMap.set(rule.Category, []) unless the key is there
SetCategory(map, category) ==
    IF category \in DOMAIN map
    THEN map
    ELSE [c \in DOMAIN map \cup {category} |->
            IF c = category THEN <<>> ELSE map[c]]

\* constructor of the variant (lines 4-12)
InitJs ==
    /\ scannerRules \in JsRuleLists
    /\ suppliedRules = scannerRules
    /\ sourceCodeToScan = SourceOf(NumNodes)
    /\ suppliedSource = sourceCodeToScan
    /\ op = "none"
    /\ pc = "idle"
    /\ ruleIdx = 0
    /\ capturedNodes = <<>>
    /\ nodeIdx = 0
    /\ scanResultList = <<>>
    /\ pending = "none"
    /\ callLog = <<>>
    /\ consoleErrors = <<>>
    /\ returned = <<>>
    /\ call = 0
    /\ suspended = {}
    /\ timeline = <<>>
    /\ dumped = NoDump
    /\ resultMap = EmptyMap

\* what _scan never touches
jsUnused == <<scannerRules, scanResultList, suspended, timeline>>

\* lines 50-54: _scan(context) entered from scan() or measure()
JsEnter(context) ==
    /\ pc = "idle"
    /\ Len(returned) < MaxRuns
    /\ op' = context
    /\ call' = Len(returned) + 1
    /\ resultMap' = EmptyMap
    /\ ruleIdx' = 1
    /\ capturedNodes' = <<>>
    /\ nodeIdx' = 0
    /\ pending' = "none"
    /\ callLog' = <<>>
    /\ consoleErrors' = <<>>
    /\ pc' = "jsFor"
    /\ dumped' = NoDump
    /\ UNCHANGED returned
    /\ UNCHANGED jsUnused
    /\ UNCHANGED fixed

\* scan() of the variant (lines 39-41)
JsScan == JsEnter("scan")

\* measure() of the variant (lines 92-94)
JsMeasure == JsEnter("measure")

\* lines 55-71: loop head: the category key, the context gate, the query
\* text; a rule without Context makes line 60 throw outside the try
JsForRule ==
    /\ pc = "jsFor"
    /\ ruleIdx <= Len(scannerRules)
    /\ resultMap' = SetCategory(resultMap, Rule.Category)
    /\ IF Rule.Context = NoContext
       THEN /\ returned' = Append(returned,
                   [call |-> call, op |-> op, outcome |-> "thrown",
                    result |-> EmptyMap])
            /\ pc' = "idle"
            /\ op' = "none"
            /\ ruleIdx' = ruleIdx
       ELSE /\ returned' = returned
            /\ op' = op
            /\ IF JsContextGate(Rule, op)
               THEN pc' = "jsQuery" /\ ruleIdx' = ruleIdx
               ELSE pc' = "jsFor" /\ ruleIdx' = ruleIdx + 1
    /\ UNCHANGED <<capturedNodes, nodeIdx, pending, callLog, consoleErrors,
                   call, dumped>>
    /\ UNCHANGED jsUnused
    /\ UNCHANGED fixed

\* lines 73-74: compile the query and collect the captures of its matches
JsRunQuery ==
    /\ pc = "jsQuery"
    /\ callLog' = Append(callLog, Call("query", Rule, <<>>))
    /\ IF Compiles(QueryText(Rule))
       THEN /\ capturedNodes' = Captures(QueryText(Rule))
            /\ nodeIdx' = 1
            /\ pending' = pending
            /\ pc' = "jsForEach"
       ELSE /\ capturedNodes' = capturedNodes
            /\ nodeIdx' = nodeIdx
            /\ pending' = "query"
            /\ pc' = "jsCatch"
    /\ UNCHANGED <<op, ruleIdx, consoleErrors, returned, call, dumped,
                   resultMap>>
    /\ UNCHANGED jsUnused
    /\ UNCHANGED fixed

\* lines 76-83: one capture: validate it, and push a Violation if invalid
JsValidate ==
    /\ pc = "jsForEach"
    /\ nodeIdx <= Len(capturedNodes)
    /\ callLog' = Append(callLog,
                         Call("validate", Rule, <<capturedNodes[nodeIdx]>>))
    /\ LET node == capturedNodes[nodeIdx]
           list == JsViolationList(resultMap, Rule)
       IN  IF ValidateNodeThrows(Rule, node)
           THEN /\ pending' = "validate"
                /\ pc' = "jsCatch"
                /\ UNCHANGED <<resultMap, nodeIdx>>
           ELSE IF JsValid(Rule, node)
           THEN /\ nodeIdx' = nodeIdx + 1
                /\ UNCHANGED <<resultMap, pending, pc>>
           ELSE IF list \in DOMAIN resultMap
           THEN /\ resultMap' =
                     [resultMap EXCEPT ![list] = Append(@, Violation(node, Rule))]
                /\ nodeIdx' = nodeIdx + 1
                /\ UNCHANGED <<pending, pc>>
           ELSE /\ pending' = "push"
                /\ pc' = "jsCatch"
                /\ UNCHANGED <<resultMap, nodeIdx>>
    /\ UNCHANGED <<op, ruleIdx, capturedNodes, consoleErrors, returned, call,
                   dumped>>
    /\ UNCHANGED jsUnused
    /\ UNCHANGED fixed

\* lines 84-89: the captures are done, the try block ends, next rule
JsEndRule ==
    /\ pc = "jsForEach"
    /\ nodeIdx > Len(capturedNodes)
    /\ ruleIdx' = ruleIdx + 1
    /\ pc' = "jsFor"
    /\ UNCHANGED <<op, capturedNodes, nodeIdx, pending, callLog,
                   consoleErrors, returned, call, dumped, resultMap>>
    /\ UNCHANGED jsUnused
    /\ UNCHANGED fixed

\* lines 86-88: the catch clause logs and the loop goes on
JsCatch ==
    /\ pc = "jsCatch"
    /\ consoleErrors' =
          Append(consoleErrors, [rule |-> Rule.Id, error |-> pending])
    /\ pending' = "none"
    /\ ruleIdx' = ruleIdx + 1
    /\ pc' = "jsFor"
    /\ UNCHANGED <<op, capturedNodes, nodeIdx, callLog, returned, call,
                   dumped, resultMap>>
    /\ UNCHANGED jsUnused
    /\ UNCHANGED fixed

\* line 90: return resultMap
JsReturn ==
    /\ pc = "jsFor"
    /\ ruleIdx > Len(scannerRules)
    /\ returned' = Append(returned,
           [call |-> call, op |-> op, outcome |-> "returned",
            result |-> resultMap])
    /\ pc' = "idle"
    /\ op' = "none"
    /\ UNCHANGED <<ruleIdx, capturedNodes, nodeIdx, pending, callLog,
                   consoleErrors, call, dumped, resultMap>>
    /\ UNCHANGED jsUnused
    /\ UNCHANGED fixed

\* DumpResult (lines 100-106)
DumpResult(node, source) ==
    [SourceFragment |-> SubSeq(source, StartIndex(node) + 1, EndIndex(node)),
     StartIndex |-> StartIndex(node),
     EndIndex |-> EndIndex(node)]

\* dump(queryString) of the variant (lines 18-33): the records go to
\* console.log and nothing is returned
JsDump ==
    /\ pc = "idle"
    /\ \E queryString \in DumpQueries :
          LET query == DumpQueryString(queryString)
              captures == DumpCaptures(query)
          IN  dumped' =
                IF Compiles([pattern |-> query, match |-> NoRegEx])
                THEN [outcome |-> "returned",
                      value |-> Undefined,
                      logged |-> Stringify([k \in 1..Len(captures) |->
                                   DumpResult(captures[k].node, sourceCodeToScan)]),
                      queryString |-> queryString]
                ELSE [outcome |-> "thrown", value |-> Undefined,
                      logged |-> Undefined, queryString |-> queryString]
    /\ UNCHANGED <<op, pc, ruleIdx, capturedNodes, nodeIdx, pending, callLog,
                   consoleErrors, returned, call, resultMap>>
    /\ UNCHANGED jsUnused
    /\ UNCHANGED fixed

NextJs ==
    \/ JsScan
    \/ JsMeasure
    \/ JsForRule
    \/ JsRunQuery
    \/ JsValidate
    \/ JsEndRule
    \/ JsCatch
    \/ JsReturn
    \/ JsDump

SpecJs == InitJs /\ [][NextJs]_vars

----------------------------------------------------------------------------
(* commonScan as a function of the rule list                               *)

RECURSIVE ForEachFindings(_, _, _)
\* lines 108-110: what the forEach appends from position k on, up to a throw
ForEachFindings(rule, nodes, k) ==
    IF k > Len(nodes) \/ ValidateNodeThrows(rule, nodes[k])
    THEN <<>>
    ELSE ValidateNodeFindings(rule, nodes[k]) \o ForEachFindings(rule, nodes, k + 1)

\* lines 85-114: what one turn of the for loop appends to scanResultList
RuleFindings(rule) ==
    LET r == [rule EXCEPT !.Priority = IF @ > VIOLATION THEN VIOLATION ELSE @]
        nodes == Captures(QueryText(r))
        ctx == IF r.Context = NoContext THEN <<"scan">> ELSE r.Context
    IN  IF PreFilterThrows(r) \/ ~Compiles(QueryText(r))
        THEN <<>>
        ELSE IF Includes(ctx, "measure") /\ MeasureNodesThrows(r)
        THEN <<>>
        ELSE IF ValidateNodesThrows(r)
        THEN <<>>
        ELSE ValidateNodesFindings(r, nodes) \o ForEachFindings(r, nodes, 1)

RECURSIVE ScanOf(_)
\* lines 76-117: the list commonScan returns for a rule list
ScanOf(rules) ==
    IF rules = <<>>
    THEN <<>>
    ELSE RuleFindings(Head(rules)) \o ScanOf(Tail(rules))

----------------------------------------------------------------------------
(* Vocabulary of the properties                                            *)

\* the for loop is over and commonScan is about to return scanResultList
AtReturn == pc = "for" /\ ruleIdx > Len(scannerRules)

RuleIds == 1..Len(suppliedRules)

\* the findings of a list that were made for rule i
FindingsOf(list, i) == SelectSeq(list, LAMBDA f : f.rule = i)

\* the findings of a list that were made for other rules than i
FindingsBut(list, i) == SelectSeq(list, LAMBDA f : f.rule # i)

\* rule i reached the catch clause in the running call
Failed(i) == \E k \in DOMAIN consoleErrors : consoleErrors[k].rule = i

\* callback cb of rule i was invoked in the running call
Invoked(cb, i) ==
    \E k \in DOMAIN callLog : callLog[k].cb = cb /\ callLog[k].rule = i

QueryValid(rule) == Compiles(QueryText(rule))

\* the rule list without the rule at position i
Without(rules, i) ==
    [k \in 1..(Len(rules) - 1) |-> IF k < i THEN rules[k] ELSE rules[k + 1]]

RECURSIVE Flatten(_)
Flatten(lists) ==
    IF lists = <<>> THEN <<>> ELSE Head(lists) \o Flatten(Tail(lists))

----------------------------------------------------------------------------
(* Properties                                                              *)

\* C1: whatever the rule list (empty, or every query invalid), every call of
\* scan() or measure() returns a list; no error raised by a query reaches
\* the caller.
C1_ScanNeverThrows ==
    /\ \A k \in DOMAIN returned : returned[k].outcome = "returned"
    /\ pc = "catch" => pending # "none"
    /\ pc = "idle" => pending = "none"

\* a scan of a list of invalid-query rules only has returned
C1_Witness ==
    /\ Len(suppliedRules) >= 2
    /\ \A i \in RuleIds : ~QueryValid(suppliedRules[i])
    /\ Len(returned) >= 1
    /\ returned[Len(returned)].op = "scan"
    /\ returned[Len(returned)].outcome = "returned"
    /\ Len(consoleErrors) = Len(suppliedRules)

\* C2: when some rules of the list have an invalid Query, scan() returns
\* what it returns for the list without those rules, in the same order.
C2_InvalidRulesAsIfRemoved ==
    (AtReturn /\ \E i \in RuleIds : ~QueryValid(suppliedRules[i]))
        => scanResultList = ScanOf(SelectSeq(suppliedRules, QueryValid))

\* an invalid-query rule comes first and a later rule has findings
C2_Witness ==
    /\ AtReturn
    /\ op = "scan"
    /\ Len(suppliedRules) >= 2
    /\ ~QueryValid(suppliedRules[1])
    /\ FindingsOf(scanResultList, 2) # <<>>

\* C3: a rule whose evaluation raised an error (anywhere in its pipeline)
\* has no finding in the result list.
C3_FailedRuleContributesNothing ==
    \A i \in RuleIds : Failed(i) => FindingsOf(scanResultList, i) = <<>>

\* C4: at every callback invocation the rule carries
\* min(declared Priority, VIOLATION), and so does every finding.
C4_PriorityClamped ==
    /\ \A k \in DOMAIN callLog :
          callLog[k].cb \in {"measureNodes", "validateNodes", "validateNode"}
            => callLog[k].priority =
                 Min(suppliedRules[callLog[k].rule].Priority, VIOLATION)
    /\ \A k \in DOMAIN scanResultList :
          scanResultList[k].severity =
              Min(suppliedRules[scanResultList[k].rule].Priority, VIOLATION)

\* a rule declared above the maximum was evaluated and has a finding
C4_Witness ==
    \E k \in DOMAIN scanResultList :
        /\ suppliedRules[scanResultList[k].rule].Priority > VIOLATION
        /\ scanResultList[k].severity = VIOLATION
        /\ Invoked("measureNodes", scanResultList[k].rule)

\* C5: during measure(), measureNodes is never invoked for a rule whose
\* Context does not include 'measure' (a missing Context counts as 'scan').
C5_NoMeasureOutsideContext ==
    \A k \in DOMAIN callLog :
        (callLog[k].op = "measure" /\ callLog[k].cb = "measureNodes")
            => Includes(suppliedRules[callLog[k].rule].Context, "measure")

\* measure() has evaluated a rule without Context and one with Context scan
C5_Witness ==
    /\ AtReturn
    /\ op = "measure"
    /\ \E i, j \in RuleIds :
          /\ suppliedRules[i].Context = NoContext
          /\ suppliedRules[j].Context = <<"scan">>
          /\ Invoked("validateNodes", i) /\ ~Invoked("measureNodes", i)
          /\ Invoked("validateNodes", j) /\ ~Invoked("measureNodes", j)

\* C6 as stated: measureNodes is invoked only in a measure() run, and only
\* for a rule whose Context includes 'measure'.
C6_MeasureOnlyWhenRequested ==
    \A k \in DOMAIN callLog :
        callLog[k].cb = "measureNodes"
            => /\ callLog[k].op = "measure"
               /\ Includes(suppliedRules[callLog[k].rule].Context, "measure")

\* C6 amended: measureNodes is invoked only for a rule whose Context includes
\* 'measure', and the requested operation does not gate it: in scan() runs as
\* in measure() runs, a rule that reaches its validators has had measureNodes
\* invoked exactly if its Context includes 'measure'.
C6_MeasureGatedByContextOnly ==
    /\ \A k \in DOMAIN callLog :
          callLog[k].cb = "measureNodes"
            => Includes(suppliedRules[callLog[k].rule].Context, "measure")
    /\ \A i \in RuleIds :
          Invoked("validateNodes", i)
            => (Invoked("measureNodes", i)
                  <=> Includes(suppliedRules[i].Context, "measure"))

\* a scan() run has invoked measureNodes
C6_Witness ==
    /\ op = "scan"
    /\ \E i \in RuleIds : Invoked("measureNodes", i) /\ Invoked("validateNodes", i)

\* what a rule whose evaluation succeeds appends: the findings of
\* validateNodes, then those of validateNode node by node
C7_Expected(rule) ==
    LET nodes == Captures(QueryText(rule))
    IN  ValidateNodesFindings(rule, nodes)
          \o Flatten([k \in 1..Len(nodes) |-> ValidateNodeFindings(rule, nodes[k])])

\* C7: the returned list is, rule by rule in rule-list order, the findings of
\* validateNodes followed by the findings of validateNode in capture order;
\* nothing of a rule that succeeded is dropped, duplicated or reordered.
C7_ResultIsConcatenation ==
    AtReturn =>
        /\ \A i \in RuleIds :
              ~Failed(i) => FindingsOf(scanResultList, i) = C7_Expected(scannerRules[i])
        /\ \A k \in 1..(Len(scanResultList) - 1) :
              scanResultList[k].rule <= scanResultList[k + 1].rule

\* two rules succeeded, one of them on a node captured twice
C7_Witness ==
    /\ AtReturn
    /\ consoleErrors = <<>>
    /\ Len(suppliedRules) >= 2
    /\ suppliedRules[1].Query = DupQuery
    /\ Len(FindingsOf(scanResultList, 1)) = 4
    /\ Len(FindingsOf(scanResultList, 2)) >= 2

\* C8: two consecutive scan() calls on the same engine return equal lists,
\* also when a rule declared a Priority above the maximum.
C8_ScanIdempotent ==
    \A k \in 1..(Len(returned) - 1) :
        (returned[k].op = "scan" /\ returned[k + 1].op = "scan")
            => returned[k].result = returned[k + 1].result

\* two scans have returned findings of a rule declared above the maximum
C8_Witness ==
    /\ Len(returned) >= 2
    /\ returned[1].op = "scan" /\ returned[2].op = "scan"
    /\ \E k \in DOMAIN returned[2].result :
          suppliedRules[returned[2].result[k].rule].Priority > VIOLATION

\* C9 as stated: scan() and measure() leave every field of every rule, the
\* rule list and the source text as they were at construction.
C9_RulesUnchanged ==
    /\ scannerRules = suppliedRules
    /\ sourceCodeToScan = suppliedSource

\* C9 amended: scan() and measure() change no field of any rule other than
\* Priority, which commonScan overwrites with min(Priority, VIOLATION) (so
\* after a completed call every rule carries the clamped value); the rule
\* list and the source text are unchanged.
C9_OnlyPriorityNormalized ==
    /\ Len(scannerRules) = Len(suppliedRules)
    /\ sourceCodeToScan = suppliedSource
    /\ \A i \in RuleIds :
          /\ [scannerRules[i] EXCEPT !.Priority = 0]
                = [suppliedRules[i] EXCEPT !.Priority = 0]
          /\ scannerRules[i].Priority
                \in {suppliedRules[i].Priority,
                     Min(suppliedRules[i].Priority, VIOLATION)}
          /\ Len(returned) >= 1
                => scannerRules[i].Priority = Min(suppliedRules[i].Priority, VIOLATION)

\* a call has completed and a rule's Priority is no longer the declared one
C9_Witness ==
    /\ Len(returned) >= 1
    /\ \E i \in RuleIds :
          /\ suppliedRules[i].Priority > VIOLATION
          /\ scannerRules[i].Priority = VIOLATION
          /\ suppliedRules[i].Context = <<"scan">>

\* the composed query of a rule compiles and captures no node
ZeroMatch(rule) == QueryValid(rule) /\ Captures(QueryText(rule)) = <<>>

\* C10 as stated: a rule whose query matches zero nodes has no finding in the
\* result of scan(), and the result is the one of the list without the rule.
C10_ZeroMatchContributesNothing ==
    (AtReturn /\ op = "scan") =>
        \A i \in RuleIds :
            ZeroMatch(suppliedRules[i])
                => /\ FindingsOf(scanResultList, i) = <<>>
                   /\ scanResultList = ScanOf(Without(suppliedRules, i))

\* C10 amended: a rule whose query matches zero nodes contributes only what
\* its validateNodes callback returns for the empty node list (validateNode
\* is never invoked for it), and the findings of every other rule are the
\* same as if the rule were absent from the list.
C10_ZeroMatchOnlyBulkFindings ==
    (AtReturn /\ op = "scan") =>
        \A i \in RuleIds :
            ZeroMatch(suppliedRules[i])
                => /\ ~Invoked("validateNode", i)
                   /\ FindingsOf(scanResultList, i) =
                        IF Failed(i)
                        THEN <<>>
                        ELSE ValidateNodesFindings(scannerRules[i], <<>>)
                   /\ FindingsBut(scanResultList, i) =
                        ScanOf(Without(suppliedRules, i))

\* a zero-match rule follows a rule with findings, and its validateNodes
\* has returned a finding for the empty node list
C10_Witness ==
    /\ AtReturn
    /\ op = "scan"
    /\ Len(suppliedRules) >= 2
    /\ ZeroMatch(suppliedRules[2])
    /\ FindingsOf(scanResultList, 1) # <<>>
    /\ Len(FindingsOf(scanResultList, 2)) = 1

\* the number of invocations of callback cb for rule i in the running call
CountCalls(cb, i) ==
    Len(SelectSeq(callLog, LAMBDA e : e.cb = cb /\ e.rule = i))

\* the invocations of callback cb for rule i in the running call, in order
CallsOf(cb, i) == SelectSeq(callLog, LAMBDA e : e.cb = cb /\ e.rule = i)

\* rule i reached the catch clause with an error of kind error
FailedWith(error, i) ==
    \E k \in DOMAIN consoleErrors :
        consoleErrors[k].rule = i /\ consoleErrors[k].error = error

\* the query of rule i was compiled and executed without error
QuerySucceeded(i) == Invoked("query", i) /\ QueryValid(suppliedRules[i])

Rank(cb) ==
    CASE cb = "preFilter" -> 1
      [] cb = "query" -> 2
      [] cb = "measureNodes" -> 3
      [] cb = "validateNodes" -> 4
      [] cb = "validateNode" -> 5

\* C13: in one run every callback of a rule precedes every callback of the
\* next rule, the rules are taken in list order, and within a rule the order
\* is preFilter, query, measureNodes, validateNodes, then validateNode node
\* by node in capture order.
C13_SequentialOrder ==
    /\ \A k \in 1..(Len(callLog) - 1) :
          LET a == callLog[k]
              b == callLog[k + 1]
          IN  \/ /\ b.rule = a.rule + 1
                 /\ b.cb = "preFilter"
              \/ /\ b.rule = a.rule
                 /\ \/ Rank(a.cb) < Rank(b.cb)
                    \/ a.cb = "validateNode" /\ b.cb = "validateNode"
    /\ callLog # <<>> => callLog[1].rule = 1 /\ callLog[1].cb = "preFilter"
    /\ \A i \in RuleIds :
          \A j \in 1..CountCalls("validateNode", i) :
              CallsOf("validateNode", i)[j].nodes = <<Captures(QueryText(suppliedRules[i]))[j]>>

\* two rules have run through their whole pipeline, measureNodes included
C13_Witness ==
    /\ AtReturn
    /\ Len(suppliedRules) >= 2
    /\ \A i \in {1, 2} :
          /\ Invoked("measureNodes", i)
          /\ CountCalls("validateNode", i) = 2
          /\ ~Failed(i)

\* C14: calls of scan()/measure() made without awaiting the earlier ones do
\* not interleave: every callback of an earlier call precedes every callback
\* of a later call, a call is only ever suspended after its commonScan has
\* returned, and each call settles with its own fresh list.
C14_RunsDoNotInterleave ==
    /\ \A k \in 1..(Len(timeline) - 1) : timeline[k] <= timeline[k + 1]
    /\ \A frame \in suspended :
          /\ frame.pc = "settling"
          /\ frame.scanResultList = ScanOf(suppliedRules)
    /\ \A k \in DOMAIN returned : returned[k].result = ScanOf(suppliedRules)
    /\ pc # "idle" => \A k \in DOMAIN timeline : timeline[k] <= call

\* two calls are pending at once, each with findings of its own
C14_Witness ==
    /\ Cardinality(suspended) = 2
    /\ \A frame \in suspended : frame.scanResultList # <<>>
    /\ \E f, g \in suspended : f.op = "scan" /\ g.op = "measure" /\ f.call < g.call
    /\ \E k, l \in DOMAIN timeline : timeline[k] = 1 /\ timeline[l] = 2

\* C15: a rule evaluated without error has validateNodes invoked exactly once,
\* with every captured node (duplicates kept), and validateNode invoked once
\* per entry of that list; a rule whose query fails has neither validator
\* nor measureNodes invoked.
C15_ValidatorCallCounts ==
    AtReturn =>
        \A i \in RuleIds :
            /\ ~Failed(i)
                 => /\ CountCalls("validateNodes", i) = 1
                    /\ CallsOf("validateNodes", i)[1].nodes
                         = Captures(QueryText(suppliedRules[i]))
                    /\ CountCalls("validateNode", i)
                         = Len(Captures(QueryText(suppliedRules[i])))
            /\ FailedWith("query", i)
                 => /\ CountCalls("validateNodes", i) = 0
                    /\ CountCalls("validateNode", i) = 0
                    /\ CountCalls("measureNodes", i) = 0

\* a rule that captures one node twice and a rule with an invalid query
C15_Witness ==
    /\ AtReturn
    /\ \E i, j \in RuleIds :
          /\ suppliedRules[i].Query = DupQuery
          /\ ~Failed(i)
          /\ CountCalls("validateNode", i) = 2
          /\ FailedWith("query", j)

CallbackErrors == {"preFilter", "measureNodes", "validateNodes", "validateNode"}

\* C16: an error raised by preFilter, measureNodes, validateNodes or
\* validateNode is caught inside commonScan: the next rule is evaluated, what
\* the other rules appended is kept, and the call returns normally.
C16_CallbackErrorsCaught ==
    /\ \A k \in DOMAIN returned : returned[k].outcome = "returned"
    /\ (AtReturn /\ \E i \in RuleIds : \E e \in CallbackErrors : FailedWith(e, i))
          => /\ \A j \in RuleIds : Invoked("preFilter", j)
             /\ \A j \in RuleIds :
                   FindingsOf(scanResultList, j) = RuleFindings(suppliedRules[j])

\* the first rule failed in a callback and the second one has its findings
C16_Witness ==
    /\ AtReturn
    /\ Len(suppliedRules) >= 2
    /\ \E e \in CallbackErrors : FailedWith(e, 1)
    /\ FindingsOf(scanResultList, 2) # <<>>
    /\ FindingsOf(scanResultList, 2) = RuleFindings(suppliedRules[2])

\* the captures a query string has over the whole tree root
C12_Captures(queryString) ==
    PatternCaptures(IF queryString = "" THEN DefaultDumpQuery ELSE queryString)

\* C12 as stated: dump() returns a serialized list with one record per capture
\* over the tree root, in capture order, each with the source fragment and
\* the start and end offsets of the node, the fragment being the source text
\* between the offsets; an empty query string stands for the default pattern.
C12_DumpRecordsWithOffsets ==
    dumped.outcome = "returned" =>
        LET list == dumped.value.json
            nodes == C12_Captures(dumped.queryString)
        IN  /\ Len(list) = Len(nodes)
            /\ \A k \in DOMAIN list :
                  /\ {"SourceFragment", "StartIndex", "EndIndex"} \subseteq DOMAIN list[k]
                  /\ list[k].StartIndex = StartIndex(nodes[k])
                  /\ list[k].EndIndex = EndIndex(nodes[k])
                  /\ list[k].SourceFragment =
                        SubSeq(suppliedSource, list[k].StartIndex + 1, list[k].EndIndex)

\* C12 amended: dump() of ScanManager.ts returns a serialized list with one
\* entry per capture over the tree root, in capture order, each entry being
\* the string @<capture name>=<node text>, the node text being the source
\* text between the offsets of the node; the entries hold no offsets; an
\* empty query string stands for the default class declaration pattern, and a
\* query string that does not compile makes dump() throw.
C12_DumpNameAndText ==
    /\ dumped.outcome = "returned" =>
          LET list == dumped.value.json
              nodes == C12_Captures(dumped.queryString)
          IN  /\ Len(list) = Len(nodes)
              /\ \A k \in DOMAIN list :
                    /\ DOMAIN list[k] = {"name", "text"}
                    /\ list[k].name =
                          IF dumped.queryString = "" THEN "decl" ELSE "exp"
                    /\ list[k].text =
                          SubSeq(suppliedSource, StartIndex(nodes[k]) + 1,
                                 EndIndex(nodes[k]))
              /\ dumped.queryString = ""
                    => list = <<[name |-> "decl", text |-> suppliedSource]>>
    /\ dumped.outcome = "thrown" <=> dumped.queryString = BadQuery

\* dump('') has returned the one class declaration of the source
C12_Witness ==
    /\ dumped.outcome = "returned"
    /\ dumped.queryString = ""
    /\ Len(dumped.value.json) = 1
    /\ dumped.value.json[1].text = suppliedSource

\* the loop of _scan is over and resultMap is about to be returned
JsAtReturn == pc = "jsFor" /\ ruleIdx > Len(scannerRules)

\* C17: in ScanManager.js a rule whose Context does not include the requested
\* context never has its query executed nor its validate callback invoked,
\* while its Category still gets an (empty) entry in the map.
C17_JsContextGatesRule ==
    /\ op # "none" =>
          \A i \in RuleIds :
              ~Includes(suppliedRules[i].Context, op)
                => /\ ~Invoked("query", i)
                   /\ ~Invoked("validate", i)
                   /\ i < ruleIdx => suppliedRules[i].Category \in DOMAIN resultMap
    /\ JsAtReturn =>
          \A i \in RuleIds :
              ~Includes(suppliedRules[i].Context, op)
                => /\ suppliedRules[i].Category \in DOMAIN resultMap
                   /\ resultMap[suppliedRules[i].Category] = <<>>

\* measure() has passed over a rule of context scan and run another rule
C17_Witness ==
    /\ JsAtReturn
    /\ op = "measure"
    /\ Len(suppliedRules) >= 2
    /\ suppliedRules[1].Context = <<"scan">>
    /\ suppliedRules[1].Category = "Naming"
    /\ DOMAIN resultMap = {"Naming", "Metrics"}
    /\ ~Invoked("query", 1)
    /\ Invoked("validate", 2)

\* C18: in ScanManager.js every list of the map is empty after any run: the
\* first capture of a rule that fails validation makes the push into
\* resultMap[rule.Context] throw, the catch takes the error, no violation is
\* recorded, the remaining captures of the rule are not validated, and the
\* loop goes on with the next rule.
C18_JsListsStayEmpty ==
    /\ \A c \in DOMAIN resultMap : resultMap[c] = <<>>
    /\ \A k \in DOMAIN returned :
          \A c \in DOMAIN returned[k].result : returned[k].result[c] = <<>>
    /\ JsAtReturn =>
          \A i \in RuleIds :
              LET rule == suppliedRules[i]
                  nodes == Captures(QueryText(rule))
              IN  /\ Includes(rule.Context, op) => Invoked("query", i)
                  /\ (/\ Includes(rule.Context, op)
                      /\ QueryValid(rule)
                      /\ nodes # <<>>
                      /\ ~ValidateNodeThrows(rule, nodes[1])
                      /\ ~JsValid(rule, nodes[1]))
                        => /\ FailedWith("push", i)
                           /\ CountCalls("validate", i) = 1

\* the first of two captures of a rule failed validation, the push threw,
\* and the next rule was evaluated
C18_Witness ==
    /\ JsAtReturn
    /\ Len(suppliedRules) >= 2
    /\ Len(Captures(QueryText(suppliedRules[1]))) = 2
    /\ FailedWith("push", 1)
    /\ CountCalls("validate", 1) = 1
    /\ Invoked("validate", 2)
    /\ DOMAIN resultMap # {}

====
